---- MODULE Spec2Model ----
(***************************************************************************)
(* Model of indoor-sim-server: the simulation tick, the bounded history    *)
(* buffer and its time window (server.js), and the indices engine          *)
(* (utils/indices.js: mean, std, pearson, computeIndices).                 *)
(*                                                                         *)
(* Numbers.  JavaScript Numbers are modelled by integers on fixed grids:   *)
(*   - a measure is an integer count of the field's grid step, Unit[f]     *)
(*     steps per physical unit (co2, no2: 1; rh: 0.1; co, temp, pres:      *)
(*     0.01; nh3: 0.001);                                                  *)
(*   - an index value (a penalty, a score) is an integer count of 1/Scale  *)
(*     index points; a division truncates to that grid;                    *)
(*   - a value returned by toFixed(2) is a count of hundredths, a value    *)
(*     returned by toFixed(3) a count of thousandths.                      *)
(* Times are integer milliseconds.                                         *)
(***************************************************************************)
EXTENDS Integers, Sequences, FiniteSets, TLC

VARIABLES
    rev,        \* which revision of server.js runs: 1 (lines 1-175) or 2 (lines 177-322)
    now,        \* the wall clock, Date.now(), in ms
    nextTick,   \* when the setInterval timer is next due, in ms
    nticks,     \* number of ticks run so far (names the objects they allocate)
    heap,       \* the measures objects: reference -> record of the seven fields
    history,    \* the history array: entries [timestamp, measures (a reference)]
    op,         \* the handler that ran in the last step
    sec,        \* the sec argument of the last windowSeconds call
    series,     \* the array returned by the last windowSeconds call
    indices,    \* the object returned by the last computeIndices call
    inState,    \* bounded-input run: the state argument of computeIndices
    inWindow,   \* bounded-input run: the lastWindow argument of computeIndices
    inA,        \* bounded-input run: first series argument (mean, std, pearson)
    inB,        \* bounded-input run: second series argument (pearson)
    outStat     \* bounded-input run: results of mean, std and pearson

vars == <<rev, now, nextTick, nticks, heap, history, op, sec, series, indices,
          inState, inWindow, inA, inB, outStat>>

serverVars == <<rev, now, nextTick, nticks, heap, history, op, sec, series>>
handlerVars == <<op, sec, series, indices>>
pureVars == <<inState, inWindow, inA, inB, outStat>>

(***************************************************************************)
(* Bounds of the model.                                                    *)
(***************************************************************************)
\* capacity of the history buffer in revision 1 (60 * 30 in the source)
HISTORY_SECONDS == 3
\* capacity of the history buffer in revision 2 (60 * 60 in the source)
HISTORY_MAX == 4
\* number of clock quanta the model runs for
MaxQuanta == 12
\* longest series handed to mean, std and pearson in the bounded-input runs
MaxSeriesLen == 3
\* longest window handed to computeIndices in the bounded-input runs
MaxWindowLen == 3

(***************************************************************************)
(* Program constants.                                                      *)
(***************************************************************************)
TICK_MS == 1000
\* the clock advances in quanta of half a tick
Quantum == TICK_MS \div 2
MaxNow == MaxQuanta * Quantum

Fields == {"co2", "no2", "nh3", "co", "temp", "rh", "pres"}

\* grid steps per physical unit, per field
Unit == [co2 |-> 1, no2 |-> 1, nh3 |-> 1000, co |-> 100,
         temp |-> 100, rh |-> 10, pres |-> 100]

\* let state = { co2: 600, no2: 40, nh3: 0.02, co: 0.5, temp: 22.5, rh: 50, pres: 1013 }
InitialState == [co2 |-> 600, no2 |-> 40, nh3 |-> 20, co |-> 50,
                 temp |-> 2250, rh |-> 500, pres |-> 101300]

\* vary(state.f, delta, min, max): the arguments of the seven calls of the tick
VaryArgs == [co2  |-> [delta |-> 20, min |-> 450,    max |-> 1500],
             no2  |-> [delta |-> 2,  min |-> 20,     max |-> 120],
             nh3  |-> [delta |-> 2,  min |-> 10,     max |-> 80],
             co   |-> [delta |-> 5,  min |-> 20,     max |-> 300],
             temp |-> [delta |-> 12, min |-> 1900,   max |-> 2600],
             rh   |-> [delta |-> 3,  min |-> 350,    max |-> 650],
             pres |-> [delta |-> 5,  min |-> 100800, max |-> 101800]]

\* The values (Math.random() * 2 - 1) * delta of the seven calls of one tick, in
\* grid steps: each lies in [-delta, delta).
DrawVectors ==
         { [co2 |-> 1,  no2 |-> 1,  nh3 |-> 1,  co |-> 1,  temp |-> 1,  rh |-> 1,  pres |-> 1],
           [co2 |-> -2, no2 |-> -1, nh3 |-> -2, co |-> 1,  temp |-> -2, rh |-> -1, pres |-> 0],
           [co2 |-> 1,  no2 |-> -2, nh3 |-> 0,  co |-> -1, temp |-> 0,  rh |-> 2,  pres |-> -1] }
Draws == { d \in DrawVectors :
             \A f \in Fields : -VaryArgs[f].delta <= d[f] /\ d[f] < VaryArgs[f].delta }

\* the reference of the live state object
StateRef == 0

(***************************************************************************)
(* Helpers: rounding and dates.                                            *)
(***************************************************************************)
Abs(x) == IF x < 0 THEN -x ELSE x

\* x / d rounded to the nearest integer, halves away from zero (d > 0)
RoundDiv(x, d) == IF x >= 0 THEN (2 * x + d) \div (2 * d)
                            ELSE -((2 * (-x) + d) \div (2 * d))

\* new Date().toISOString(): a time with millisecond resolution, as text
toISOString(ms) == [s |-> ms \div 1000, ms |-> ms % 1000]

\* new Date(iso).getTime()
getTime(iso) == iso.s * 1000 + iso.ms

(***************************************************************************)
(* utils/indices.js: mean, std, pearson.                                   *)
(*                                                                         *)
(* A JavaScript value that may be null or undefined is a record            *)
(* [defined, v]; an array argument is Arr(<<...>>) or NoArr.               *)
(***************************************************************************)
\* grid of the index values: 1/Scale of an index point (and of a correlation)
Scale == 10 ^ 4

Undefined == [defined |-> FALSE, v |-> 0]
Num(n) == [defined |-> TRUE, v |-> n]
NoArr == [defined |-> FALSE, v |-> << >>]
Arr(s) == [defined |-> TRUE, v |-> s]

\* arr.reduce((s, x) => s + x, 0)
RECURSIVE Sum(_)
Sum(s) == IF s = << >> THEN 0 ELSE Head(s) + Sum(Tail(s))

\* Math.sqrt on non-negative integers, truncated: the largest r with r * r <= n
RECURSIVE SqrtBetween(_, _, _)
SqrtBetween(n, lo, hi) ==
    IF lo >= hi THEN lo
    ELSE LET mid == (lo + hi + 1) \div 2
         IN  IF mid * mid <= n THEN SqrtBetween(n, mid, hi)
                               ELSE SqrtBetween(n, lo, mid - 1)
Sqrt(n) == SqrtBetween(n, 0, 46340)

\* The factor by which Math.sqrt's argument is scaled up before the integer
\* square root is taken, so that the root keeps four to five significant
\* digits: the largest f with n * f * f within 32-bit integers.
SqrtFactor(n) == IF n = 0 THEN 1 ELSE Sqrt(2147483647 \div n)

\* export function mean(arr): the exact quotient sum / length as a fraction
mean(arr) ==
    IF ~arr.defined \/ Len(arr.v) = 0 THEN [num |-> 0, den |-> 1]
    ELSE [num |-> Sum(arr.v), den |-> Len(arr.v)]

\* (x - m) * m.den for a mean m: the deviation from the mean, in 1/m.den
Dev(x, m) == x * m.den - m.num

\* export function std(arr): population standard deviation, on the Scale grid
\* (1/Scale of the field's grid step)
std(arr) ==
    IF ~arr.defined \/ Len(arr.v) = 0 THEN 0
    ELSE LET m == mean(arr)
             n == Len(arr.v)
             \* sum of (x - m)^2, in 1/m.den^2; v = sq / (m.den^2 * n)
             sq == Sum([i \in DOMAIN arr.v |-> Dev(arr.v[i], m) * Dev(arr.v[i], m)])
             f == SqrtFactor(sq * n)
             \* Math.sqrt(v) = Math.sqrt(sq * n) / (m.den * n)
         IN  (Sqrt(sq * n * f * f) * Scale) \div (f * m.den * n)

\* the loop of pearson over the first n elements: num, denA, denB, in
\* 1/(ma.den * mb.den), 1/ma.den^2 and 1/mb.den^2
PearsonSums(a, b, n) ==
    LET ma == mean(Arr(a))
        mb == mean(Arr(b))
    IN  [num  |-> Sum([i \in 1..n |-> Dev(a[i], ma) * Dev(b[i], mb)]),
         denA |-> Sum([i \in 1..n |-> Dev(a[i], ma) * Dev(a[i], ma)]),
         denB |-> Sum([i \in 1..n |-> Dev(b[i], mb) * Dev(b[i], mb)])]

\* const den = Math.sqrt(denA * denB); if (den === 0) return 0; return num / den;
\* the quotient is on the Scale grid, rounded to nearest
PearsonQuotient(sums) ==
    LET f == SqrtFactor(sums.denA * sums.denB)
        den == Sqrt(sums.denA * sums.denB * f * f)
    IN  IF den = 0 THEN 0 ELSE RoundDiv(sums.num * f * Scale, den)

\* a pearson that correlates the common prefix of series of different lengths
pearsonCommonPrefix(a, b) ==
    IF ~a.defined \/ ~b.defined THEN 0
    ELSE LET n == IF Len(a.v) <= Len(b.v) THEN Len(a.v) ELSE Len(b.v)
         IN  IF n < 2 THEN 0
             ELSE PearsonQuotient(PearsonSums(SubSeq(a.v, 1, n), SubSeq(b.v, 1, n), n))

\* a pearson that drops the sign of the covariance
pearsonUnsigned(a, b) ==
    IF ~a.defined \/ ~b.defined \/ Len(a.v) # Len(b.v) \/ Len(a.v) < 2 THEN 0
    ELSE LET sums == PearsonSums(a.v, b.v, Len(a.v))
         IN  PearsonQuotient([sums EXCEPT !.num = Abs(sums.num)])

\* export function pearson(a, b), on the Scale grid (-Scale .. Scale)
pearson(a, b) ==
    IF ~a.defined \/ ~b.defined \/ Len(a.v) # Len(b.v) \/ Len(a.v) < 2 THEN 0
    ELSE PearsonQuotient(PearsonSums(a.v, b.v, Len(a.v)))

\* Number(v.toFixed(3)) of a value on the Scale grid, in thousandths
toFixed3(v) == RoundDiv(v * 1000, Scale)

\* Number(v.toFixed(2)) of a value on the Scale grid, in hundredths
toFixed2(v) == RoundDiv(v * 100, Scale)

(***************************************************************************)
(* utils/indices.js: computeIndices(state, lastWindow).                    *)
(*                                                                         *)
(* An object is a function from its keys to values: a missing field is a   *)
(* key outside its DOMAIN.  Index values are on the Scale grid.            *)
(***************************************************************************)
\* a property read o.k: undefined when the object has no such key
Get(o, k) == IF k \in DOMAIN o THEN Num(o[k]) ELSE Undefined

\* arr.slice(-n)
SliceLast(arr, n) ==
    IF Len(arr) <= n THEN arr ELSE SubSeq(arr, Len(arr) - n + 1, Len(arr))

\* 100 index points
Hundred == 100 * Scale

\* function clamp(v, min = 0, max = 100) { return Math.max(min, Math.min(max, v)); }
clampNone(v, min, max) == v
clamp(v, min, max) ==
    LET upper == IF max <= v THEN max ELSE v
    IN  IF min >= upper THEN min ELSE upper

\* const th = { co2: [600, 2000], no2: [40, 200], nh3: [0.01, 0.1], co: [0.5, 10] }
th == [co2 |-> [good |-> 600 * Unit.co2,        bad |-> 2000 * Unit.co2],
       no2 |-> [good |-> 40 * Unit.no2,         bad |-> 200 * Unit.no2],
       nh3 |-> [good |-> Unit.nh3 \div 100,     bad |-> Unit.nh3 \div 10],
       co  |-> [good |-> Unit.co \div 2,        bad |-> 10 * Unit.co]]

\* a penalty that is linear from zero instead of from the good threshold
pollutantPenaltyFromZero(x, good, bad) ==
    IF ~x.defined THEN 0
    ELSE IF x.v <= good THEN 0
    ELSE clamp((x.v * 100 * Scale) \div bad, 0, Hundred)

\* function pollutantPenalty(x, good, bad)
pollutantPenalty(x, good, bad) ==
    IF ~x.defined THEN 0
    ELSE IF x.v <= good THEN 0
    ELSE LET p100 == ((x.v - good) * 100 * Scale) \div (bad - good)
         IN  clamp(p100, 0, Hundred)

\* const weightsPoll = { co2: 0.5, no2: 0.25, nh3: 0.15, co: 0.10 }, in hundredths
weightsPoll == [co2 |-> 50, no2 |-> 25, nh3 |-> 15, co |-> 10]

Pollutants == {"co2", "no2", "nh3", "co"}

\* p_co2, p_no2, p_nh3, p_co
Penalties(state) ==
    [k \in Pollutants |-> pollutantPenalty(Get(state, k), th[k].good, th[k].bad)]

\* const AQ_penalty = p_co2*weightsPoll.co2 + ... + p_co*weightsPoll.co
AQ_penalty(state) ==
    LET p == Penalties(state)
    IN  (p.co2 * weightsPoll.co2 + p.no2 * weightsPoll.no2
         + p.nh3 * weightsPoll.nh3 + p.co * weightsPoll.co) \div 100

\* const AQL = clamp(100 - AQ_penalty, 0, 100)
AQL(state) == clamp(Hundred - AQ_penalty(state), 0, Hundred)

\* const raw_tci = (state.temp == null ? 0 : Math.abs(state.temp - 22)*2.5)
\*               + (state.rh == null ? 0 : Math.abs(state.rh - 50)*0.5)
\*               + (state.pres == null ? 0 : Math.abs(state.pres - 1013)*0.02)
raw_tci(state) ==
    LET temp == Get(state, "temp")
        rh   == Get(state, "rh")
        pres == Get(state, "pres")
    IN    (IF ~temp.defined THEN 0
           ELSE (Abs(temp.v - 22 * Unit.temp) * 25 * Scale) \div (10 * Unit.temp))
        + (IF ~rh.defined THEN 0
           ELSE (Abs(rh.v - 50 * Unit.rh) * 5 * Scale) \div (10 * Unit.rh))
        + (IF ~pres.defined THEN 0
           ELSE (Abs(pres.v - 1013 * Unit.pres) * 2 * Scale) \div (100 * Unit.pres))

max_raw == 76

\* const TCI_penalty_pct = clamp(raw_tci / max_raw * 100, 0, 100)
TCI_penalty_pct(state) == clamp((raw_tci(state) * 100) \div max_raw, 0, Hundred)

\* const TCI = clamp(100 - TCI_penalty_pct, 0, 100)
TCI(state) == clamp(Hundred - TCI_penalty_pct(state), 0, Hundred)

\* window.map(s => s.measures[k]).filter(x => x != null)
RECURSIVE FieldSeries(_, _)
FieldSeries(window, k) ==
    IF window = << >> THEN << >>
    ELSE LET x == Get(Head(window).measures, k)
             rest == FieldSeries(Tail(window), k)
         IN  IF x.defined THEN <<x.v>> \o rest ELSE rest

\* s.measures.co2 on an entry without a measures record raises a TypeError
Throws(lastWindow) ==
    LET read == SliceLast(lastWindow, 60 * 20)
    IN  \E i \in DOMAIN read : "measures" \notin DOMAIN read[i]

\* const s_k = series.length >= 2 ? std(series) : 0
Sigma(window, k) ==
    LET ser == FieldSeries(SliceLast(window, 60), k)
    IN  IF Len(ser) >= 2 THEN std(Arr(ser)) ELSE 0

\* const beta = { co2: 0.4, temp: 0.3, rh: 0.3 }, in hundredths
beta == [co2 |-> 40, temp |-> 30, rh |-> 30]
\* const max_sigma = { co2: 500, temp: 3, rh: 10 }
max_sigma == [co2 |-> 500, temp |-> 3, rh |-> 10]

\* term * 100, with term = (s_co2 / max_sigma.co2) * beta.co2 + ... (temp, rh)
Term100(window) ==
    LET part(k) == (Sigma(window, k) * beta[k]) \div (max_sigma[k] * Unit[k])
    IN  part("co2") + part("temp") + part("rh")

\* const SRI = clamp(100 - term * 100, 0, 100)
SRI(window) == clamp(Hundred - Term100(window), 0, Hundred)

\* const Volatility_penalty = clamp(term * 100, 0, 100)
Volatility_penalty(window) == clamp(Term100(window), 0, Hundred)

\* corrSeries[k] over corrWindow = lastWindow.slice(-(60 * 20))
corrSeries(window, k) == FieldSeries(SliceLast(window, 60 * 20), k)

\* if (x.length >= 2 && y.length === x.length) corr = pearson(x, y), else 0
Corr(window, kx, ky) ==
    LET x == corrSeries(window, kx)
        y == corrSeries(window, ky)
    IN  IF Len(x) >= 2 /\ Len(y) = Len(x) THEN pearson(Arr(x), Arr(y)) ELSE 0

corr_co2_no2(window) == Corr(window, "co2", "no2")
corr_co_nh3(window) == Corr(window, "co", "nh3")

\* the GEI of the first revision, with placeholder correlations in place of
\* the computed ones (0.1 and 0.05, the least values it draws)
GEIPlaceholder(window) ==
    clamp(Hundred - (Scale \div 10) * 40 - (Scale \div 20) * 40, 0, Hundred)

\* const GEI = clamp(100 - Math.abs(corr_co2_no2)*40 - Math.abs(corr_co_nh3)*40, 0, 100)
GEI(window) ==
    clamp(Hundred - Abs(corr_co2_no2(window)) * 40 - Abs(corr_co_nh3(window)) * 40,
          0, Hundred)

\* the blend of the first revision: 100 - (0.4*AQ + 0.4*Comfort + 0.2*Volatility)
GAQI_raw3(aq, tci, gei, vol) == Hundred - (40 * aq + 40 * tci + 20 * vol) \div 100

\* const alpha = { a1: 0.45, a2: 0.25, a3: 0.2, a4: 0.10 };
\* const GAQI_raw = 100 - (alpha.a1 * AQ_penalty + alpha.a2 * TCI_penalty_pct
\*                         + alpha.a3 * (100 - GEI) + alpha.a4 * Volatility_penalty)
GAQI_raw(aq, tci, gei, vol) ==
    Hundred - (45 * aq + 25 * tci + 20 * (Hundred - gei) + 10 * vol) \div 100

\* const GAQI = clamp(GAQI_raw, 0, 100)
GAQI(state, window) ==
    clamp(GAQI_raw(AQ_penalty(state), TCI_penalty_pct(state), GEI(window),
                   Volatility_penalty(window)), 0, Hundred)

ResultFields == {"AQL", "AQ_penalty", "TCI", "TCI_penalty_pct", "SRI",
                 "Volatility_penalty", "GEI", "corr_co2_no2", "corr_co_nh3", "GAQI"}

\* the object returned by the catch block
ZeroResult == [k \in ResultFields |-> 0]

\* what a caller observes when computeIndices raises instead of returning
Raised == [error |-> "TypeError"]

\* the try block: the returned object, values in hundredths (correlations in
\* thousandths)
TryBlock(state, lastWindow) ==
    [AQL                |-> toFixed2(AQL(state)),
     AQ_penalty         |-> toFixed2(AQ_penalty(state)),
     TCI                |-> toFixed2(TCI(state)),
     TCI_penalty_pct    |-> toFixed2(TCI_penalty_pct(state)),
     SRI                |-> toFixed2(SRI(lastWindow)),
     Volatility_penalty |-> toFixed2(Volatility_penalty(lastWindow)),
     GEI                |-> toFixed2(GEI(lastWindow)),
     corr_co2_no2       |-> toFixed3(corr_co2_no2(lastWindow)),
     corr_co_nh3        |-> toFixed3(corr_co_nh3(lastWindow)),
     GAQI               |-> toFixed2(GAQI(state, lastWindow))]

\* computeIndices without its try/catch (the third revision of the file)
computeIndicesNoCatch(state, lastWindow) ==
    IF Throws(lastWindow) THEN Raised ELSE TryBlock(state, lastWindow)

\* export function computeIndices(state, lastWindow = [])
computeIndices(state, lastWindow) ==
    IF Throws(lastWindow) THEN ZeroResult ELSE TryBlock(state, lastWindow)

(***************************************************************************)
(* server.js: the simulation tick and the history buffer.                  *)
(***************************************************************************)
\* vary(value, delta, min, max), with change = (Math.random() * 2 - 1) * delta.
\* parseFloat(newVal.toFixed(3)) rounds to the field's grid.
vary(value, change, min, max) ==
    LET n0 == (value + change) * 5
        \* newVal is kept in fifths of a grid step so that "* 0.2" is exact
        n1 == IF n0 < min * 5 THEN min * 5 + (min * 5 - n0) \div 5 ELSE n0
        n2 == IF n1 > max * 5 THEN max * 5 - (n1 - max * 5) \div 5 ELSE n1
    IN  RoundDiv(n2, 5)

\* the seven assignments state.f = vary(state.f, ...) of one tick
VaryState(st, draw) ==
    [f \in Fields |-> vary(st[f], draw[f], VaryArgs[f].min, VaryArgs[f].max)]

\* { ...obj }: allocates a new object holding a copy of obj's fields.
\* Returns the new heap and the reference of the copy.
SpreadAlias(h, src, ref) == [heap |-> h, ref |-> src]
Spread(h, src, ref) ==
    [heap |-> [r \in DOMAIN h \cup {ref} |-> IF r = ref THEN h[src] ELSE h[r]],
     ref  |-> ref]

\* history.push(meas); if (history.length > capacity) history.shift();
pushHistoryNoShift(hist, meas, capacity) == Append(hist, meas)
pushHistoryShiftLast(hist, meas, capacity) ==
    LET pushed == Append(hist, meas)
    IN  IF Len(pushed) > capacity THEN SubSeq(pushed, 1, Len(pushed) - 1) ELSE pushed
pushHistory(hist, meas, capacity) ==
    LET pushed == Append(hist, meas)
    IN  IF Len(pushed) > capacity THEN Tail(pushed) ELSE pushed

Capacity == IF rev = 1 THEN HISTORY_SECONDS ELSE HISTORY_MAX

\* objects no longer referenced are dropped from the heap
Collect(h, hist) ==
    [r \in {StateRef} \cup {hist[i].measures : i \in DOMAIN hist} |-> h[r]]

\* the indices variable when the last step called no computeIndices
NoIndices == [k \in ResultFields |-> -1]

\* setInterval(() => { ... }, TICK_MS)
Tick ==
    /\ now >= nextTick
    /\ \E draw \in Draws :
        LET varied == [heap EXCEPT ![StateRef] = VaryState(heap[StateRef], draw)]
            copied == Spread(varied, StateRef, nticks + 1)
            entry  == [timestamp |-> toISOString(now), measures |-> copied.ref]
            hist   == pushHistory(history, entry, Capacity)
        IN  /\ history' = hist
            /\ heap' = Collect(copied.heap, hist)
    /\ nticks' = nticks + 1
    /\ nextTick' = nextTick + TICK_MS
    /\ op' = "tick"
    /\ sec' = 0
    /\ series' = << >>
    /\ indices' = NoIndices
    /\ UNCHANGED <<rev, now, pureVars>>

\* time passes; the timer fires as soon as it is due
Advance ==
    /\ now < nextTick
    /\ now < MaxNow
    /\ now' = now + Quantum
    /\ op' = "clock"
    /\ sec' = 0
    /\ series' = << >>
    /\ indices' = NoIndices
    /\ UNCHANGED <<rev, nextTick, nticks, heap, history, pureVars>>

\* function windowSeconds(sec)
windowSecondsStrict(hist, s, t) ==
    SelectSeq(hist, LAMBDA h : getTime(h.timestamp) > t - s * 1000)
windowSeconds(hist, s, t) ==
    LET len == Len(hist)
        cutoff == t - s * 1000
    IN  IF len = 0 THEN << >>
        ELSE SelectSeq(hist, LAMBDA h : getTime(h.timestamp) >= cutoff)

\* the sec query parameters tried
Secs == {0, 1, 2, 60}

\* app.get("/history")
History ==
    /\ \E s \in Secs :
        /\ sec' = s
        /\ series' = windowSeconds(history, s, now)
    /\ op' = "history"
    /\ indices' = NoIndices
    /\ UNCHANGED <<rev, now, nextTick, nticks, heap, history, pureVars>>

\* the entries of a window with their measures objects read from the heap
ByValue(h, window) ==
    [i \in DOMAIN window |->
        [timestamp |-> window[i].timestamp, measures |-> h[window[i].measures]]]

\* a handler that takes its window out of the buffer (history.splice in place
\* of history.filter) instead of copying it
DataDraining ==
    /\ LET lastWindow == windowSeconds(history, 60, now)
       IN  /\ series' = lastWindow
           /\ indices' = computeIndices(heap[StateRef], ByValue(heap, lastWindow))
           /\ history' = SelectSeq(history,
                             LAMBDA h : getTime(h.timestamp) < now - 60 * 1000)
    /\ sec' = 60
    /\ op' = "data"
    /\ UNCHANGED <<rev, now, nextTick, nticks, heap, pureVars>>

\* app.get("/data")
Data ==
    /\ LET lastWindow == windowSeconds(history, 60, now)
       IN  /\ series' = lastWindow
           /\ indices' = computeIndices(heap[StateRef], ByValue(heap, lastWindow))
    /\ sec' = 60
    /\ op' = "data"
    /\ UNCHANGED <<rev, now, nextTick, nticks, heap, history, pureVars>>

InitServer ==
    /\ rev \in {1, 2}
    /\ now = 0
    /\ nextTick = TICK_MS
    /\ nticks = 0
    /\ heap = [r \in {StateRef} |-> InitialState]
    /\ history = << >>
    /\ op = "start"
    /\ sec = 0
    /\ series = << >>
    /\ indices = NoIndices

NoStat == [called |-> FALSE, mean |-> [num |-> 0, den |-> 1], std |-> 0, pearson |-> 0]

InitPureIdle ==
    /\ inState = InitialState
    /\ inWindow = << >>
    /\ inA = NoArr
    /\ inB = NoArr
    /\ outStat = NoStat

Init == InitServer /\ InitPureIdle

Next == Tick \/ Advance \/ History \/ Data

Spec == Init /\ [][Next]_vars

(***************************************************************************)
(* The statistics functions applied to bounded inputs (SpecStat).          *)
(***************************************************************************)
SeriesValues == {0, 1, 2, 5}

RECURSIVE SeqsUpTo(_, _)
SeqsUpTo(S, n) ==
    IF n = 0 THEN {<< >>}
    ELSE LET shorter == SeqsUpTo(S, n - 1)
         IN  shorter \cup { Append(s, x) : s \in shorter, x \in S }

SeriesInputs == {NoArr} \cup { Arr(s) : s \in SeqsUpTo(SeriesValues, MaxSeriesLen) }

InitStat ==
    /\ InitServer
    /\ rev = 1
    /\ inState = InitialState
    /\ inWindow = << >>
    /\ inA \in SeriesInputs
    /\ inB \in SeriesInputs
    /\ outStat = NoStat

\* mean(inA), std(inA) and pearson(inA, inB) are called
CallStat ==
    /\ ~outStat.called
    /\ outStat' = [called |-> TRUE, mean |-> mean(inA), std |-> std(inA),
                   pearson |-> pearson(inA, inB)]
    /\ UNCHANGED <<serverVars, indices, inState, inWindow, inA, inB>>

NextStat == CallStat

SpecStat == InitStat /\ [][NextStat]_vars

(***************************************************************************)
(* computeIndices applied to bounded inputs (SpecIdx).                     *)
(***************************************************************************)
\* the values tried for each field of the state: missing, at or below the good
\* threshold, between the thresholds, at and above the bad threshold
StateValues ==
    [co2  |-> {Undefined, Num(450), Num(600), Num(1300), Num(2000), Num(2500)},
     no2  |-> {Undefined, Num(40), Num(120), Num(200), Num(250)},
     nh3  |-> {Undefined, Num(10), Num(55), Num(100), Num(150)},
     co   |-> {Undefined, Num(50), Num(525), Num(1000), Num(1200)},
     temp |-> {Undefined, Num(2200), Num(2250), Num(6000)},
     rh   |-> {Undefined, Num(500), Num(900)},
     pres |-> {Undefined, Num(101300), Num(99000)}]

\* the object holding the defined fields of o
Obj(o) == [k \in {f \in DOMAIN o : o[f].defined} |-> o[k].v]

States ==
    { Obj([co2 |-> a, no2 |-> b, nh3 |-> c, co |-> d, temp |-> e, rh |-> f, pres |-> g]) :
        a \in StateValues.co2, b \in StateValues.no2, c \in StateValues.nh3,
        d \in StateValues.co, e \in StateValues.temp, f \in StateValues.rh,
        g \in StateValues.pres }

\* every pollutant at its good threshold, comfort at the set-points
GoodState == [co2 |-> 600, no2 |-> 40, nh3 |-> 10, co |-> 50,
              temp |-> 2200, rh |-> 500, pres |-> 101300]
\* every pollutant at its bad threshold, comfort at the set-points
BadState == [co2 |-> 2000, no2 |-> 200, nh3 |-> 100, co |-> 1000,
             temp |-> 2200, rh |-> 500, pres |-> 101300]

BaseStates == {GoodState, BadState, InitialState}

\* the window entries tried: complete measures, measures with missing fields,
\* empty measures, and an entry without a measures record
Entries ==
    { [timestamp |-> toISOString(0), measures |-> InitialState],
      [timestamp |-> toISOString(0),
       measures |-> [co2 |-> 640, no2 |-> 44, nh3 |-> 18, co |-> 56,
                     temp |-> 2310, rh |-> 520, pres |-> 101300]],
      [timestamp |-> toISOString(0),
       measures |-> [co2 |-> 620, nh3 |-> 26, co |-> 53, rh |-> 480, pres |-> 101250]],
      [timestamp |-> toISOString(0),
       measures |-> [no2 |-> 50, nh3 |-> 22, co |-> 60, temp |-> 2210]],
      [timestamp |-> toISOString(0)] }

Windows == SeqsUpTo(Entries, MaxWindowLen)

\* a window of two complete entries
VolatileWindow ==
    << [timestamp |-> toISOString(0), measures |-> InitialState],
       [timestamp |-> toISOString(0),
        measures |-> [co2 |-> 640, no2 |-> 44, nh3 |-> 18, co |-> 56,
                      temp |-> 2310, rh |-> 520, pres |-> 101300]] >>

\* the (state, window) pairs tried
Inputs == (States \X {<< >>, VolatileWindow}) \cup (BaseStates \X Windows)

InitIdx ==
    /\ InitServer
    /\ rev = 1
    /\ \E in \in Inputs : inState = in[1] /\ inWindow = in[2]
    /\ inA = NoArr
    /\ inB = NoArr
    /\ outStat = NoStat

\* computeIndices(inState, inWindow) is called
CallIdx ==
    /\ op = "start"
    /\ indices' = computeIndices(inState, inWindow)
    /\ op' = "computeIndices"
    /\ UNCHANGED <<rev, now, nextTick, nticks, heap, history, sec, series, pureVars>>

NextIdx == CallIdx

SpecIdx == InitIdx /\ [][NextIdx]_vars

(***************************************************************************)
(* Claims about the history buffer (specification Spec).                   *)
(***************************************************************************)
Min(a, b) == IF a <= b THEN a ELSE b

\* the measures a history entry holds
Measures(h, e) == h[e.measures]

\* C1: in every state a reader can observe, the history buffer is no longer
\* than its configured capacity.
C1_LengthWithinCapacity == Len(history) <= Capacity

\* a state in which an append has evicted an entry
C1_Witness == nticks > Capacity /\ Len(history) = Capacity

\* C2: eviction is FIFO. After k appends the buffer holds exactly the last
\* min(k, capacity) appended entries in arrival order: the entry at position i
\* is the one tick number k - length + i appended (its timestamp is that
\* tick's time, its measures are the object that tick allocated).
C2_FifoEviction ==
    /\ Len(history) = Min(nticks, Capacity)
    /\ \A i \in DOMAIN history :
        LET k == nticks - Len(history) + i
        IN  /\ getTime(history[i].timestamp) = k * TICK_MS
            /\ history[i].measures = k

\* capacity + 1 appends: the first entry is gone, the newest is last
C2_Witness ==
    /\ nticks = Capacity + 1
    /\ history[1].measures = 2
    /\ history[Len(history)].measures = nticks

\* the indices of the history entries windowSeconds(sec) must return
Qualifying == { i \in DOMAIN history : getTime(history[i].timestamp) >= now - sec * 1000 }

\* C3: windowSeconds(sec) returns exactly the stored entries whose timestamp
\* is >= now - sec * 1000, each once and in stored order (the empty array when
\* there is none), and leaves the buffer and the stored measures unchanged.
C3_WindowResult ==
    op = "history" =>
        /\ Len(series) = Cardinality(Qualifying)
        /\ \A j \in DOMAIN series : \E i \in Qualifying : history[i] = series[j]
        /\ \A i \in Qualifying : \E j \in DOMAIN series : series[j] = history[i]
        /\ \A j, k \in DOMAIN series :
            j < k => \E i1, i2 \in DOMAIN history :
                        i1 < i2 /\ history[i1] = series[j] /\ history[i2] = series[k]

C3_WindowByTime ==
    /\ []C3_WindowResult
    /\ [][op' = "history" => history' = history /\ heap' = heap]_vars

\* a window that keeps an entry exactly at the cutoff and drops an older one
C3_Witness ==
    /\ op = "history"
    /\ Len(series) > 0
    /\ Len(series) < Len(history)
    /\ getTime(series[1].timestamp) = now - sec * 1000

\* an empty result on a non-empty buffer
C3_WitnessEmpty == op = "history" /\ series = << >> /\ history # << >>

\* C4: the history holds copies. A tick stores the seven values the state has
\* at that tick, and no step changes the measures of an entry that stays in
\* the history.
C4_HistoryHoldsCopies ==
    [][ /\ op' = "tick" =>
            Measures(heap', history'[Len(history')]) = heap'[StateRef]
        /\ \A i \in DOMAIN history : \A j \in DOMAIN history' :
            history[i] = history'[j] =>
                Measures(heap', history'[j]) = Measures(heap, history[i])
      ]_vars

\* a stored snapshot that differs from the live state mutated since
C4_Witness ==
    /\ Len(history) >= 2
    /\ \A i \in 1..(Len(history) - 1) :
        \A f \in Fields : Measures(heap, history[i])[f] # heap[StateRef][f]

(***************************************************************************)
(* Claims about computeIndices (specification SpecIdx).                    *)
(***************************************************************************)
\* the call returned from the try block: no window entry lacks its measures
C_NoError == \A i \in DOMAIN inWindow : "measures" \in DOMAIN inWindow[i]

\* C5: for every state (each field a number or missing) and every window, each
\* of AQL, TCI, SRI, GEI and GAQI returned lies in [0, 100] (0 .. 10000
\* hundredths).
C5_IndicesWithinRange ==
    op = "computeIndices" =>
        \A k \in {"AQL", "TCI", "SRI", "GEI", "GAQI"} :
            0 <= indices[k] /\ indices[k] <= 10000

\* a call whose thermal penalty and pollutant penalties exceed 100 before clamping
C5_Witness ==
    /\ op = "computeIndices"
    /\ "temp" \in DOMAIN inState /\ inState.temp = 6000
    /\ "co2" \in DOMAIN inState /\ inState.co2 = 2500
    /\ inWindow # << >>
    /\ indices.TCI = 0
    /\ indices.TCI_penalty_pct = 10000

\* C6: computeIndices is total. Every call returns an object with the ten
\* fields, each a number, and the all-zero object is returned exactly when the
\* computation raised (a window entry has no measures record).
C6_TotalAndZeroOnlyOnError ==
    op = "computeIndices" =>
        /\ DOMAIN indices = {"AQL", "AQ_penalty", "TCI", "TCI_penalty_pct", "SRI",
                             "Volatility_penalty", "GEI", "corr_co2_no2",
                             "corr_co_nh3", "GAQI"}
        /\ \A k \in DOMAIN indices : indices[k] \in Int
        /\ (\A k \in DOMAIN indices : indices[k] = 0) <=> ~C_NoError

\* a call on a window with an entry that has no measures record
C6_Witness ==
    /\ op = "computeIndices"
    /\ Len(inWindow) >= 2
    /\ ~C_NoError
    /\ indices.GAQI = 0 /\ indices.AQL = 0

\* the thresholds of C7, in grid steps: co2 600/2000, no2 40/200,
\* nh3 0.01/0.1 (thousandths), co 0.5/10 (hundredths)
C7_Thresholds == [co2 |-> <<600, 2000>>, no2 |-> <<40, 200>>,
                  nh3 |-> <<10, 100>>, co |-> <<50, 1000>>]

C7_PenaltyOf(k) ==
    LET good == C7_Thresholds[k][1]
        bad  == C7_Thresholds[k][2]
    IN  IF k \notin DOMAIN inState THEN 0
        ELSE IF inState[k] <= good THEN 0
        ELSE IF inState[k] >= bad THEN 100 * Scale
        ELSE (100 * Scale * (inState[k] - good)) \div (bad - good)

\* C7: each pollutant's penalty is 0 when the reading is missing or <= good,
\* 100 when it is >= bad, and 100 * (x - good) / (bad - good) in between;
\* AQ_penalty is their sum weighted 0.50, 0.25, 0.15, 0.10 and
\* AQL = 100 - AQ_penalty (both reported to two decimals).
C7_PollutantPenalties ==
    (op = "computeIndices" /\ C_NoError) =>
        LET p == Penalties(inState)
            aq == (50 * C7_PenaltyOf("co2") + 25 * C7_PenaltyOf("no2")
                   + 15 * C7_PenaltyOf("nh3") + 10 * C7_PenaltyOf("co")) \div 100
        IN  /\ \A k \in {"co2", "no2", "nh3", "co"} :
                p[k] = C7_PenaltyOf(k) /\ p[k] <= 100 * Scale
            /\ indices.AQ_penalty = RoundDiv(aq * 100, Scale)
            /\ indices.AQL = RoundDiv((100 * Scale - aq) * 100, Scale)

\* a call with one pollutant between its thresholds, one above its bad
\* threshold, one missing and one at its good threshold
C7_Witness ==
    /\ op = "computeIndices" /\ C_NoError
    /\ DOMAIN inState = Fields \ {"no2"}
    /\ inState.co2 = 1300 /\ inState.co = 1200 /\ inState.nh3 = 10
    /\ indices.AQ_penalty = 3500

\* C8: GAQI is the 4-term blend of the unrounded terms of the same call,
\* clamp(100 - (0.45*AQ_penalty + 0.25*TCI_penalty_pct + 0.20*(100 - GEI)
\* + 0.10*Volatility_penalty), 0, 100); for every pollutant at its bad
\* threshold, comfort at the set-points and an empty window, AQ_penalty = 100,
\* AQL = 0 and GAQI = 55.
C8_GaqiBlend ==
    (op = "computeIndices" /\ C_NoError) =>
        LET blend == (45 * AQ_penalty(inState) + 25 * TCI_penalty_pct(inState)
                      + 20 * (100 * Scale - GEI(inWindow))
                      + 10 * Volatility_penalty(inWindow)) \div 100
            raw == 100 * Scale - blend
            clamped == IF raw < 0 THEN 0 ELSE IF raw > 100 * Scale THEN 100 * Scale ELSE raw
        IN  /\ indices.GAQI = RoundDiv(clamped * 100, Scale)
            /\ (inState = BadState /\ inWindow = << >>) =>
                    /\ indices.AQ_penalty = 10000
                    /\ indices.AQL = 0
                    /\ indices.GAQI = 5500

\* the call of the scenario
C8_Witness ==
    /\ op = "computeIndices"
    /\ inState = BadState /\ inWindow = << >>
    /\ indices.GAQI = 5500

\* a call in which all four terms of the blend are non-zero
C8_WitnessAllTerms ==
    /\ op = "computeIndices" /\ C_NoError
    /\ indices.AQ_penalty > 0 /\ indices.TCI_penalty_pct > 0
    /\ indices.GEI < 10000 /\ indices.Volatility_penalty > 0

(***************************************************************************)
(* Claims about mean, std and pearson (specification SpecStat).            *)
(***************************************************************************)
C_Constant(s) == \A i, j \in DOMAIN s : s[i] = s[j]

\* both arguments are arrays of the same length >= 2
C_Comparable == inA.defined /\ inB.defined /\ Len(inA.v) = Len(inB.v) /\ Len(inA.v) >= 2

\* C9: pearson(a, b) returns 0 whenever either series is absent or empty, the
\* lengths differ, the length is below 2, or either series has zero variance;
\* mean([]) = 0 and std([]) = 0.
C9_DegenerateStatistics ==
    outStat.called =>
        /\ (~C_Comparable \/ C_Constant(inA.v) \/ C_Constant(inB.v)) => outStat.pearson = 0
        /\ (~inA.defined \/ inA.v = << >>) => (outStat.mean.num = 0 /\ outStat.std = 0)

\* pearson was called on series of different lengths >= 2, neither constant
C9_Witness ==
    /\ outStat.called
    /\ inA.defined /\ inB.defined
    /\ Len(inA.v) >= 2 /\ Len(inB.v) > Len(inA.v)
    /\ ~C_Constant(inA.v) /\ ~C_Constant(inB.v)
    /\ outStat.pearson = 0

\* b is the exact negative of a after mean-centering: b[i] - mean(b) = -(a[i] - mean(a))
C_Negated ==
    \A i \in DOMAIN inA.v :
        Len(inB.v) * inB.v[i] - Sum(inB.v) = -(Len(inA.v) * inA.v[i] - Sum(inA.v))

\* C10 as stated: pearson of two identical series is 1, and of two series that
\* are exact negatives of each other after mean-centering is -1.
C10_AsStated ==
    (outStat.called /\ C_Comparable) =>
        /\ inA.v = inB.v => toFixed3(outStat.pearson) = 1000
        /\ C_Negated => toFixed3(outStat.pearson) = -1000

\* C10, amended: for series of length >= 2 that are not constant, pearson of two
\* identical series is 1, and of two series that are exact negatives of each
\* other after mean-centering is -1 (to the three decimals reported).
C10_PerfectCorrelation ==
    (outStat.called /\ C_Comparable /\ ~C_Constant(inA.v)) =>
        /\ inA.v = inB.v => toFixed3(outStat.pearson) = 1000
        /\ C_Negated => toFixed3(outStat.pearson) = -1000

\* pearson was called on a three-element series and its mirror image
C10_Witness ==
    /\ outStat.called /\ C_Comparable
    /\ Len(inA.v) = 3 /\ ~C_Constant(inA.v)
    /\ inA.v # inB.v /\ C_Negated
    /\ outStat.pearson = -Scale

\* C11: with an empty window, the state with every pollutant at its good
\* threshold and temp = 22, rh = 50, pres = 1013 yields AQ_penalty = 0,
\* TCI_penalty_pct = 0, Volatility_penalty = 0, both correlations 0 and
\* AQL = TCI = SRI = GEI = GAQI = 100; an empty window yields SRI = 100 and
\* GEI = 100 whatever the state.
C11_NeutralScenario ==
    (op = "computeIndices" /\ inWindow = << >>) =>
        /\ indices.SRI = 10000
        /\ indices.GEI = 10000
        /\ inState = [co2 |-> 600, no2 |-> 40, nh3 |-> 10, co |-> 50,
                      temp |-> 2200, rh |-> 500, pres |-> 101300] =>
                /\ indices.AQ_penalty = 0
                /\ indices.TCI_penalty_pct = 0
                /\ indices.Volatility_penalty = 0
                /\ indices.corr_co2_no2 = 0
                /\ indices.corr_co_nh3 = 0
                /\ indices.AQL = 10000
                /\ indices.TCI = 10000
                /\ indices.GAQI = 10000

\* the call of the scenario
C11_Witness ==
    /\ op = "computeIndices"
    /\ inWindow = << >>
    /\ inState = GoodState
    /\ indices.GAQI = 10000 /\ indices.SRI = 10000 /\ indices.GEI = 10000

\* a call with an empty window on a state whose other scores are not neutral
C11_WitnessAnyState ==
    /\ op = "computeIndices"
    /\ inWindow = << >>
    /\ indices.AQL < 10000 /\ indices.TCI < 10000
    /\ indices.SRI = 10000 /\ indices.GEI = 10000

C13_SnapshotsOf(k) ==
    LET w == SliceLast(inWindow, 60 * 20)
    IN  SelectSeq([i \in 1..Len(w) |-> i], LAMBDA i : k \in DOMAIN w[i].measures)

\* the pairs of gases whose correlation computeIndices evaluates
C13_Pairs == {<<"co2", "no2">>, <<"co", "nh3">>}

\* C13: whenever computeIndices evaluates a gas correlation (co2 with no2, or
\* co with nh3), the i-th values of the two series handed to pearson come
\* from the same snapshot of the window, whichever gas fields are missing in
\* whichever entries.
C13_SeriesAligned ==
    (op = "computeIndices" /\ C_NoError) =>
        \A p \in C13_Pairs :
            LET x == corrSeries(inWindow, p[1])
                y == corrSeries(inWindow, p[2])
            IN  (Len(x) >= 2 /\ Len(y) = Len(x)) =>
                    C13_SnapshotsOf(p[1]) = C13_SnapshotsOf(p[2])

====
